---- MODULE Spec2Model ----
(***************************************************************************)
(* Model of the evtools vehicle scripts (tesla.py, rivian.py): the         *)
(* persisted history store, the operations main() dispatches on its flags  *)
(* and the top-level retry loop.                                           *)
(*                                                                         *)
(* Conventions                                                             *)
(*   - an optional value (a dict key that may be missing, a Python None)   *)
(*     is a sequence of length 0 or 1: <<>> is "missing", <<v>> is v;      *)
(*   - a calendar date ("%Y%m%d" string) is a day number; the day before   *)
(*     day t is t - 1;                                                     *)
(*   - odometers are whole miles, energies whole kWh;                      *)
(*   - tesla.py line 177 reads "else:S"; the model reads it as "else:".    *)
(***************************************************************************)
EXTENDS Integers, Sequences, FiniteSets, TLC

VARIABLES script, DEBUG_MODE, file, tmp, data, data_changed, args, pc, retry,
          today, car, last_poke, poked_car, runs, out, hist, lock

vars == <<script, DEBUG_MODE, file, tmp, data, data_changed, args, pc, retry,
          today, car, last_poke, poked_car, runs, out, hist, lock>>

(***************************************************************************)
(* Bounds                                                                  *)
(***************************************************************************)
MaxDay == 2
MaxDayCharges == 2
MaxRuns == 1
MaxPolls == 5
MaxSaves == 2
MaxProcs == 2

Scripts == {"tesla", "rivian"}
Days == 0..MaxDay

None == <<>>
Some(v) == <<v>>
Has(o) == o # <<>>
Val(o) == o[1]

(***************************************************************************)
(* Snapshots and the history store                                         *)
(***************************************************************************)
\* get_current_state: the dict written to daily_state_am/pm (both fields
\* optional).  tesla.py adds charge_energy_added only when the vehicle reports
\* a charge_state; rivian.py never adds it.
Snapshot(odo, energy) == [odometer |-> odo, charge_energy_added |-> energy]

\* rivian.py --state stores s = None (JSON null) when every fetch failed:
\* a present key whose value has no fields
NullSnapshot == [odometer |-> None, charge_energy_added |-> None, null |-> TRUE]
IsNull(x) == "null" \in DOMAIN x

\* The lock file of a script (/tmp/tesla.lock, /tmp/rivian.lock): path is the
\* inode the name refers to (0: no such file), made the number of inodes
\* created so far, holder the process whose open file holds the flock on each
\* inode (0: none), proc the state of each process of the script.
MAX_WAIT_COUNT == 10
Procs == 1..MaxProcs
Inodes == 1..(MaxProcs + 1)
NotStarted == [pc |-> "idle", fp |-> 0, max_wait_count |-> MAX_WAIT_COUNT, tries |-> 0]
NoLock ==
    [path |-> 0, made |-> 0, holder |-> [i \in Inodes |-> 0],
     proc |-> [p \in Procs |-> NotStarted]]

NoDays == [d \in Days |-> None]

\* load_data with no backing file: {'daily_state': {}} plus the defaults.
DefaultStore ==
    [daily_state_am |-> NoDays,
     daily_state_pm |-> NoDays,
     day_charges    |-> 0,
     charging       |-> FALSE,
     mileage_tweet  |-> None,
     firmware       |-> None,
     last_poke      |-> None]

\* data["daily_state_am"][ts] for a date that may lie outside the model's days
AmOf(d, t) == IF t \in Days THEN d.daily_state_am[t] ELSE None

(***************************************************************************)
(* report_yesterday                                                        *)
(***************************************************************************)
Message(template, miles, eff, kwh) ==
    [template |-> template, miles |-> miles, efficiency |-> eff, kwh |-> kwh]

Report(raised, m, pic, cause) ==
    [raised |-> raised, m |-> m, pic |-> pic, cause |-> cause]

NoReport == Report(FALSE, None, None, "none")
\* KeyError on a missing snapshot field, a failed weather lookup, a missing
\* pictures directory
RaisesKey     == Report(TRUE, None, None, "key")
RaisesWeather == Report(TRUE, None, None, "weather")
RaisesPic     == Report(TRUE, None, None, "pic")

\* efficiency = kw_used * 1000 / miles_driven compared with a bound, without
\* leaving the integers (miles_driven # 0 here)
EffGreater_nonstrict(kw, miles, b) ==
    IF miles > 0 THEN kw * 1000 >= b * miles ELSE kw * 1000 <= b * miles
EffGreater(kw, miles, b) ==
    IF miles > 0 THEN kw * 1000 > b * miles ELSE kw * 1000 < b * miles
EffLess(kw, miles, b) ==
    IF miles > 0 THEN kw * 1000 < b * miles ELSE kw * 1000 > b * miles
\* "%d" % efficiency
EffShown(kw, miles) ==
    IF miles > 0 THEN (kw * 1000) \div miles ELSE 0 - ((kw * 1000) \div (0 - miles))

EfficiencyMin == 200
EfficiencyMax == 700
RoadTripMiles == 200
MaxMilesDriven == 2000

\* pic = os.path.abspath(random.choice(get_pics())): get_pics() is [None]
\* when PICTURES_PATH does not exist and abspath(None) raises TypeError.
WithPic(m, pics_ok) ==
    IF pics_ok THEN Report(FALSE, Some(m), Some("pic"), "none") ELSE RaisesPic

tesla_report_yesterday(d, t, weather_ok, pics_ok) ==
    LET ty == AmOf(d, t)
        yy == AmOf(d, t - 1)
    IN  IF ~Has(ty) \/ ~Has(yy) THEN NoReport
        ELSE IF ~Has(Val(ty).odometer) \/ ~Has(Val(yy).odometer) THEN RaisesKey
        ELSE
        LET miles_driven == Val(Val(ty).odometer) - Val(Val(yy).odometer)
            kw           == Val(ty).charge_energy_added
        IN  IF ~Has(kw) THEN RaisesKey
            ELSE
            LET kw_used == Val(kw) IN
            IF miles_driven > RoadTripMiles
              THEN WithPic(Message("road_trip", miles_driven, None, None), pics_ok)
            ELSE IF miles_driven = 0
              THEN WithPic(Message("day_off", Val(Val(ty).odometer), None, None), pics_ok)
            ELSE IF d.day_charges = 0 \/ d.day_charges > 1
              THEN IF ~weather_ok THEN RaisesWeather
                   ELSE WithPic(Message("no_efficiency", miles_driven, None, None), pics_ok)
            ELSE IF ~weather_ok THEN RaisesWeather
            ELSE IF /\ kw_used > 0
                    /\ EffGreater(kw_used, miles_driven, EfficiencyMin)
                    /\ EffLess(kw_used, miles_driven, EfficiencyMax)
              THEN WithPic(Message("efficiency", miles_driven,
                                   Some(EffShown(kw_used, miles_driven)),
                                   Some(kw_used)), pics_ok)
              ELSE WithPic(Message("no_efficiency", miles_driven, None, None), pics_ok)

\* rivian.py: the whole body sits in try/except, every exception gives
\* (None, None); an odometer of 0 is falsy and leaves miles_driven at 0; the
\* final else formats w["avg_temp"] with w never assigned (NameError).
rivian_report_yesterday(d, t, weather_ok, pics_ok) ==
    LET ty == AmOf(d, t)
        yy == AmOf(d, t - 1)
        caught(r) == IF r.raised THEN NoReport ELSE r
    IN  IF ~Has(yy) \/ ~Has(ty) THEN NoReport
        ELSE IF ~Has(Val(yy).odometer) \/ ~Has(Val(ty).odometer) THEN NoReport
        ELSE
        LET miles_driven ==
                IF Val(Val(yy).odometer) # 0 /\ Val(Val(ty).odometer) # 0
                  THEN Val(Val(ty).odometer) - Val(Val(yy).odometer)
                  ELSE 0
        IN  IF miles_driven = 0 \/ miles_driven > MaxMilesDriven \/ miles_driven < 0
              THEN NoReport
            ELSE IF miles_driven > RoadTripMiles
              THEN caught(WithPic(Message("road_trip", miles_driven, None, None), pics_ok))
            ELSE IF d.day_charges = 0 \/ d.day_charges > 1
              THEN IF ~weather_ok THEN NoReport
                   ELSE caught(WithPic(Message("no_efficiency", miles_driven, None, None),
                                       pics_ok))
            ELSE NoReport

\* variant: a missing snapshot is an error
report_yesterday_hard(s, d, t, weather_ok, pics_ok) ==
    IF ~Has(AmOf(d, t)) \/ ~Has(AmOf(d, t - 1)) THEN RaisesKey
    ELSE IF s = "tesla" THEN tesla_report_yesterday(d, t, weather_ok, pics_ok)
                        ELSE rivian_report_yesterday(d, t, weather_ok, pics_ok)
report_yesterday(s, d, t, weather_ok, pics_ok) ==
    IF s = "tesla" THEN tesla_report_yesterday(d, t, weather_ok, pics_ok)
                   ELSE rivian_report_yesterday(d, t, weather_ok, pics_ok)

(***************************************************************************)
(* Specification SpecReport: report_yesterday applied to every store whose *)
(* two AM snapshots are drawn from the sets below.                         *)
(***************************************************************************)
ReportOdometers == {0, 15000, 15045, 15200, 15201, 17000, 17001}
ReportEnergies  == {0, 9, 20, 40, 140, 150}
ReportDay == MaxDay - 1

ReportSnapshots ==
    {None} \cup
    {Some(Snapshot(Some(o), e)) : o \in ReportOdometers,
                            e \in {None} \cup {Some(k) : k \in ReportEnergies}}

Idle == [op |-> "none"]

InitReport ==
    /\ script \in Scripts
    /\ DEBUG_MODE = FALSE
    /\ file = None
    /\ tmp = None
    /\ \E y \in ReportSnapshots, t \in ReportSnapshots, c \in 0..MaxDayCharges :
          /\ script = "rivian" =>
                \A x \in {y, t} : Has(x) => ~Has(Val(x).charge_energy_added)
          /\ data = [DefaultStore EXCEPT
                     !.daily_state_am = [d \in Days |->
                                            IF d = ReportDay THEN t
                                            ELSE IF d = ReportDay - 1 THEN y
                                            ELSE None],
                     !.day_charges = c]
    /\ data_changed = FALSE
    /\ args = {}
    /\ pc = "report"
    /\ retry = 0
    /\ today = ReportDay
    /\ car = None
    /\ last_poke = None
    /\ poked_car = FALSE
    /\ runs = 0
    /\ out = Idle
    /\ hist = None
    /\ lock = NoLock

ApplyReport ==
    /\ pc = "report"
    /\ \E weather_ok \in BOOLEAN, pics_ok \in BOOLEAN :
          LET r == report_yesterday(script, data, today, weather_ok, pics_ok)
          IN  out' = [op |-> "yesterday", raised |-> r.raised, m |-> r.m, pic |-> r.pic,
                      cause |-> r.cause, weather_ok |-> weather_ok, pics_ok |-> pics_ok]
    /\ pc' = "reported"
    /\ UNCHANGED <<lock, tmp, script, DEBUG_MODE, file, data, data_changed, args, retry,
                   today, car, last_poke, poked_car, runs, hist>>

NextReport == ApplyReport

SpecReport == InitReport /\ [][NextReport]_vars

(***************************************************************************)
(* Claims about report_yesterday (checked under SpecReport)                *)
(***************************************************************************)
RepToday     == AmOf(data, today)
RepYesterday == AmOf(data, today - 1)
RepBoth      == Has(RepToday) /\ Has(RepYesterday)
RepDelta     == Val(Val(RepToday).odometer) - Val(Val(RepYesterday).odometer)
RepEnergy    == Val(RepToday).charge_energy_added
RepReturned  == pc = "reported" /\ RepBoth
RepFairDay   == out.weather_ok /\ out.pics_ok
RepInBand    ==
    /\ Has(RepEnergy)
    /\ RepDelta > 0
    /\ Val(RepEnergy) * 1000 > 200 * RepDelta
    /\ Val(RepEnergy) * 1000 < 700 * RepDelta

\* C3 (as stated): for every pair of existing AM snapshots, report_yesterday
\* returns a message when the odometer delta lies in [0, 2000] and returns no
\* message when the delta is negative or above 2000 (weather lookup and picture
\* choice succeeding, a Tesla snapshot carrying its charge_energy_added).
C3_MessageIffDeltaInRange ==
    (RepReturned /\ RepFairDay /\ (Has(RepEnergy) \/ script = "rivian")) =>
        IF RepDelta >= 0 /\ RepDelta <= 2000
          THEN ~out.raised /\ Has(out.m)
          ELSE ~Has(out.m)

\* C4 (as stated): the message includes the efficiency if and only if
\* day_charges = 1, miles_driven > 0 and 200 < efficiency < 700.
C4_EfficiencyIffOneChargeInBand ==
    (RepReturned /\ RepFairDay /\ Has(RepEnergy)) =>
        ((Has(out.m) /\ Has(Val(out.m).efficiency))
            <=> (data.day_charges = 1 /\ RepInBand))

\* C4 (amended): whenever report_yesterday returns a message, the message
\* includes the efficiency if and only if day_charges = 1, 0 < miles_driven <=
\* 200 (the road-trip template comes first) and 200 < efficiency < 700; the
\* efficiency shown is energy * 1000 / miles truncated, and odometers
\* 15000 -> 15045 with day_charges = 1 and 20 kWh give 444 and 45 miles.
C4_EfficiencyIffOneChargeInBandNoRoadTrip ==
    (pc = "reported" /\ Has(out.m)) =>
        /\ Has(Val(out.m).efficiency)
              <=> (data.day_charges = 1 /\ RepInBand /\ RepDelta <= 200)
        /\ Has(Val(out.m).efficiency) =>
              /\ Val(out.m).miles = RepDelta
              /\ Val(Val(out.m).efficiency) = (Val(RepEnergy) * 1000) \div RepDelta
        /\ ( /\ Val(RepYesterday).odometer = Some(15000)
              /\ Val(RepToday).odometer = Some(15045)
              /\ RepEnergy = Some(20)
              /\ data.day_charges = 1 )
              => /\ Val(out.m).efficiency = Some(444)
                 /\ Val(out.m).miles = 45

C4_Witness ==
    /\ pc = "reported"
    /\ Has(out.m)
    /\ Val(out.m).efficiency = Some(444)
    /\ Val(out.m).miles = 45
    /\ data.day_charges = 1

\* C5 (as stated): whenever 200 < miles_driven <= 2000, report_yesterday
\* yields the road-trip message whatever day_charges is and whether or not
\* today's snapshot carries charge_energy_added.
C5_RoadTripNeedsNoEnergy ==
    (RepReturned /\ RepFairDay /\ RepDelta > 200 /\ RepDelta <= 2000) =>
        /\ ~out.raised
        /\ Has(out.m)
        /\ Val(out.m).template = "road_trip"

(***************************************************************************)
(* load_data / save_data                                                   *)
(***************************************************************************)
\* load_data: the decoded file, or the default store when DATA_FILE does not
\* exist (every field the store holds is then defaulted).  A last_poke read
\* back from the file is a time of an earlier process: "stored".
Aged(d) == IF Has(d.last_poke) THEN [d EXCEPT !.last_poke = Some("stored")] ELSE d
load_data(f) == IF Has(f) THEN Aged(Val(f)) ELSE DefaultStore

\* load_data (tesla.py): the module global last_poke is overwritten only when
\* the loaded store carries one.
load_last_poke(d, lp) == IF Has(d.last_poke) THEN d.last_poke ELSE lp

\* save_data: a no-op under DEBUG_MODE, else DATA_FILE is replaced by the dump
\* (whose last_poke, once on disk, is a stored time).
save_data(f, d, debug) == IF debug THEN f ELSE Some(Aged(d))

(***************************************************************************)
(* get_vehicle_data (tesla.py): whether the fetch pokes the car             *)
(***************************************************************************)
\* api_ok: the vehicle API answers; awake: is_awake(v); recent: the last poke
\* is less than MIN_TIME_BETWEEN_POKES minutes old.  With no last poke the
\* comparison 'unknown' < timedelta raises TypeError.
\* Result: "fail" (exception), "poke" (full request) or "cached".
get_vehicle_data(force_wake, poked, lp, api_ok, awake, recent) ==
    IF ~api_ok THEN "fail"
    ELSE IF force_wake \/ poked THEN "poke"
    ELSE IF ~awake THEN "poke"
    ELSE IF ~Has(lp) THEN "fail"
    ELSE IF recent THEN "cached"
    ELSE "poke"

\* rivian.py get_vehicle_data: one request, no poke bookkeeping
rivian_get_vehicle_data(api_ok) == IF api_ok THEN "cached" ELSE "fail"

Fetch(s, force_wake, poked, lp, api_ok, awake, recent) ==
    IF s = "tesla" THEN get_vehicle_data(force_wake, poked, lp, api_ok, awake, recent)
                   ELSE rivian_get_vehicle_data(api_ok)

\* was_car_poked: the global last_poke differs from the one the store carries
was_car_poked(d, lp) == Has(lp) /\ (~Has(d.last_poke) \/ lp # d.last_poke)

(***************************************************************************)
(* --chargecheck                                                           *)
(***************************************************************************)
Change(d, changed) == [data |-> d, changed |-> changed]

\* variant: counts every poll that sees the car charging
chargecheck_level(d, m) ==
    IF m THEN Change([d EXCEPT !.charging = TRUE, !.day_charges = @ + 1], TRUE)
    ELSE IF d.charging THEN Change([d EXCEPT !.charging = FALSE], TRUE)
    ELSE Change(d, FALSE)
\* m is the is_charging result; the store changes on an edge only
chargecheck(d, m) ==
    IF ~d.charging /\ m
      THEN Change([d EXCEPT !.charging = TRUE, !.day_charges = @ + 1], TRUE)
    ELSE IF d.charging /\ ~m
      THEN Change([d EXCEPT !.charging = FALSE], TRUE)
    ELSE Change(d, FALSE)

(***************************************************************************)
(* --state                                                                 *)
(***************************************************************************)
STATE_RETRIES == 3

\* hour = datetime.datetime.now().hour; if hour < 12: "am" else "pm"
\* (TRUE: the AM bucket)
Hours == {11, 12}
ampm_always_am(hour) == TRUE
ampm(hour) == hour < 12

\* data["daily_state_%s" % ampm][ts] = s
with_snapshot(d, t, am, snap) ==
    IF am THEN [d EXCEPT !.daily_state_am[t] = Some(snap)]
          ELSE [d EXCEPT !.daily_state_pm[t] = Some(snap)]

\* The body of "if args.state" after the fetch loop.  snap: the snapshot
\* fetched, None when every attempt failed; poked: was_car_poked(data).
\* tesla.py writes only a fetched snapshot of a poked car; rivian.py logs the
\* failure and writes whatever s is.
record_state(s, d, t, am, snap, poked) ==
    IF s = "tesla"
      THEN IF Has(snap) /\ poked THEN Change(with_snapshot(d, t, am, Val(snap)), TRUE)
                                 ELSE Change(d, FALSE)
      ELSE Change(with_snapshot(d, t, am, IF Has(snap) THEN Val(snap) ELSE NullSnapshot),
                  TRUE)

(***************************************************************************)
(* --mileage                                                               *)
(***************************************************************************)
Thousands(m) == m \div 1000

\* "mileage_tweet" not in data: data["mileage_tweet"] = 0
with_mileage_tweet(d) ==
    IF Has(d.mileage_tweet) THEN d ELSE [d EXCEPT !.mileage_tweet = Some(0)]

\* int(m / 1000) > int(data["mileage_tweet"] / 1000)
crossed_milestone(d, m) == Thousands(m) > Thousands(Val(d.mileage_tweet))

(***************************************************************************)
(* check_current_firmware_version                                          *)
(***************************************************************************)
FirmwareRecord(v, ts) == [version |-> v, date_detected |-> ts]
FirmwareMessage(kind, v, days) == [kind |-> kind, version |-> v, days |-> days]
FirmwareResult(d, changed, m) == [data |-> d, changed |-> changed, m |-> m]

\* variant: the day count is taken after the record was stamped with today
firmware_time_since_stamped(rec, t) == t - t
\* time_since is computed from the stored date before the record is updated
firmware_time_since(rec, t) == t - rec.date_detected

\* variant: a new version replaces the stored one but keeps its date
check_current_firmware_version_keep_date(s, d, v, t) ==
    IF s = "rivian" /\ ~Has(v) THEN FirmwareResult(d, FALSE, None)
    ELSE IF Has(d.firmware)
      THEN LET time_since == firmware_time_since(Val(d.firmware), t) IN
           IF Val(d.firmware).version # v
             THEN FirmwareResult([d EXCEPT !.firmware = Some(FirmwareRecord(v,
                                                   Val(d.firmware).date_detected))],
                                 TRUE,
                                 Some(FirmwareMessage("found", v, time_since)))
             ELSE FirmwareResult(d, FALSE,
                                 Some(FirmwareMessage("running", v, time_since)))
      ELSE FirmwareResult([d EXCEPT !.firmware = Some(FirmwareRecord(v, t))], TRUE, None)
\* v: the version read from the vehicle, None when the fetch failed (the
\* request raised, so v never became a version string).  rivian.py returns
\* early on a failed fetch; tesla.py logs and goes on.
check_current_firmware_version(s, d, v, t) ==
    IF s = "rivian" /\ ~Has(v) THEN FirmwareResult(d, FALSE, None)
    ELSE IF Has(d.firmware)
      THEN LET time_since == firmware_time_since(Val(d.firmware), t) IN
           IF Val(d.firmware).version # v
             THEN FirmwareResult([d EXCEPT !.firmware = Some(FirmwareRecord(v, t))],
                                 TRUE,
                                 Some(FirmwareMessage("found", v, time_since)))
             ELSE FirmwareResult(d, FALSE,
                                 Some(FirmwareMessage("running", v, time_since)))
      ELSE FirmwareResult([d EXCEPT !.firmware = Some(FirmwareRecord(v, t))], TRUE, None)

MileageResult(d, changed, announced) ==
    [data |-> d, changed |-> changed, announced |-> announced]

\* The body of "if args.mileage" once get_odometer returned m.  tweet is what
\* tweet_string does when it is called: "sent", "dropped" (create_tweet failed,
\* caught inside tweet_string) or "raise" (caught by the operation's except,
\* which skips the rest of the try block).  rivian.py guards on "if m" and
\* backfills a missing odometer of today's AM snapshot (on a null snapshot
\* the "in" test raises TypeError, caught after the milestone update).
mileage(s, d, m, t, debug, tweet) ==
    IF s = "rivian" /\ m = 0 THEN MileageResult(d, FALSE, FALSE)
    ELSE
    LET d1    == with_mileage_tweet(d)
        cross == crossed_milestone(d1, m)
        d2    == IF cross THEN [d1 EXCEPT !.mileage_tweet = Some(m)] ELSE d1
        back  == /\ s = "rivian"
                 /\ Has(AmOf(d2, t))
                 /\ ~IsNull(Val(AmOf(d2, t)))
                 /\ ~Has(Val(AmOf(d2, t)).odometer)
        d3    == IF back
                   THEN [d2 EXCEPT !.daily_state_am[t] =
                                      Some([Val(@) EXCEPT !.odometer = Some(m)])]
                   ELSE d2
    IN  IF cross /\ ~debug /\ tweet = "raise"
          THEN MileageResult(d1, FALSE, FALSE)
          ELSE MileageResult(d3, cross \/ back, cross /\ ~debug /\ tweet = "sent")

(***************************************************************************)
(* main() and the retry loop of __main__                                   *)
(***************************************************************************)
MAX_RETRIES == 3

Versions     == {"2023.44", "2024.2"}
CarOdometers == {990, 1045}
Milestones   == {Thousands(o) : o \in CarOdometers}
TweetOutcomes == {"sent", "dropped", "raise"}
\* an exception of the vehicle API: an HTTPError with a transient status code
\* (>= 500 or 408), or anything else
ExcKinds      == {"retryable", "fatal"}
Envs          == [api_ok : BOOLEAN, awake : BOOLEAN, recent : BOOLEAN]

\* main's sequence of "if args.<flag>" blocks, in source order
Order(s) ==
    IF s = "tesla"
      THEN <<"mileage", "chargecheck", "state", "pluggedin", "yesterday", "garage",
             "firmware">>
      ELSE <<"mileage", "chargecheck", "state", "pluggedin", "yesterday", "sleepcheck",
             "firmware">>
Flags(s) == {Order(s)[i] : i \in 1..Len(Order(s))}

NextFrom(s, a, i) ==
    LET later == {j \in (i + 1)..Len(Order(s)) : Order(s)[j] \in a}
    IN  IF later = {} THEN "end"
        ELSE Order(s)[CHOOSE j \in later : \A k \in later : j <= k]
\* the command lines of the cron table: one flag, or an operation that
\* changes the store followed by --firmware, by --yesterday or by the
\* operation main runs outside any try (--garage, --sleepcheck)
Schedules(s) ==
    {{x} : x \in Flags(s)}
        \cup {{x, "firmware"} : x \in {"mileage", "chargecheck", "state", "yesterday"}}
        \cup {{x, "yesterday"} : x \in {"mileage", "chargecheck", "state"}}
        \cup {{x, Order(s)[6]} : x \in {"mileage", "chargecheck"}}

Position(s, op) == CHOOSE i \in 1..Len(Order(s)) : Order(s)[i] = op
NextPc(s, a, op) == NextFrom(s, a, Position(s, op))

\* AM snapshots an earlier run of --state left in the file: day d at
\* 900 + 45 d miles, 20 kWh added (tesla.py; rivian.py records no energy)
SeedSnapshot(s, d) ==
    Some(Snapshot(Some(900 + 45 * d), IF s = "tesla" THEN Some(20) ELSE None))
SeedStore(s, present) ==
    [DefaultStore EXCEPT
        !.daily_state_am = [d \in Days |-> IF d \in present THEN SeedSnapshot(s, d)
                                                           ELSE None]]
\* the same after a --chargecheck that saw the car charging and a --firmware
\* that found version v on day 0
UsedStore(s, present, v) ==
    [SeedStore(s, present) EXCEPT
        !.day_charges = 1,
        !.charging    = TRUE,
        !.firmware    = Some([version |-> Some(v), date_detected |-> 0])]
\* the files the first invocation (on day 1) may find: none, or one left by
\* the invocations of days 0 and 1
Files(s) ==
    {None, Some(SeedStore(s, {0, 1}))}
        \cup {Some(UsedStore(s, {0, 1}, v)) : v \in {"2023.44"}}

\* history kept for the claims: the milestones announced so far, whether one
\* was announced twice, whether this invocation consumed a yesterday report
NoHistory == [announced |-> {}, twice |-> FALSE, ran_yesterday |-> FALSE, start |-> None,
              wrote |-> None]

Init ==
    /\ script \in Scripts
    /\ DEBUG_MODE \in BOOLEAN
    /\ file \in Files(script)
    /\ tmp = None
    /\ data = DefaultStore
    /\ data_changed = FALSE
    /\ args = {}
    /\ pc = "idle"
    /\ retry = 0
    /\ today = 1
    /\ car = 990
    /\ last_poke = None
    /\ poked_car = FALSE
    /\ runs = 0
    /\ out = Idle
    /\ hist = NoHistory
    /\ lock = NoLock

Resting ==
    /\ data' = DefaultStore
    /\ data_changed' = FALSE
    /\ args' = {}
    /\ retry' = 0
    /\ last_poke' = None
    /\ poked_car' = FALSE

\* The cron table starts the script with some flags: a fresh process
Invoke ==
    /\ pc = "idle"
    /\ runs < MaxRuns
    /\ runs' = runs + 1
    /\ args' \in Schedules(script)
    /\ pc' = "main"
    /\ out' = Idle
    /\ hist' = [hist EXCEPT !.ran_yesterday = FALSE, !.start = file]
    /\ UNCHANGED <<lock, tmp, script, DEBUG_MODE, file, data, data_changed, retry, today, car,
                   last_poke, poked_car>>

NewDay ==
    /\ pc = "idle"
    /\ runs < MaxRuns
    /\ today < MaxDay
    /\ today' = today + 1
    /\ out' = Idle
    /\ hist' = [hist EXCEPT !.ran_yesterday = FALSE]
    /\ UNCHANGED <<lock, tmp, script, DEBUG_MODE, file, data, data_changed, args, pc, retry, car,
                   last_poke, poked_car, runs>>

\* the odometer never decreases
Drive ==
    /\ pc = "idle"
    /\ runs < MaxRuns
    /\ \E o \in CarOdometers : o > car /\ car' = o
    /\ out' = Idle
    /\ hist' = [hist EXCEPT !.ran_yesterday = FALSE]
    /\ UNCHANGED <<lock, tmp, script, DEBUG_MODE, file, data, data_changed, args, pc, retry, today,
                   last_poke, poked_car, runs>>

\* get_lock(); data = load_data(); data_changed = False.  get_lock creates the
\* lock file when it is missing and raises when another process keeps the
\* lock through all its attempts.
EnterMain ==
    /\ pc = "main"
    /\ lock' = [lock EXCEPT !.path = 1]
    /\ \E granted \in BOOLEAN :
         IF granted
           THEN /\ data' = load_data(file)
                /\ last_poke' = load_last_poke(load_data(file), last_poke)
                /\ data_changed' = FALSE
                /\ pc' = NextFrom(script, args, 0)
                /\ out' = [op |-> "load"]
           ELSE /\ pc' = "except"
                /\ out' = [op |-> "get_lock", exc |-> "fatal"]
                /\ UNCHANGED <<data, last_poke, data_changed>>
    /\ hist' = [hist EXCEPT !.wrote = None]
    /\ UNCHANGED <<tmp, script, DEBUG_MODE, file, args, retry, today, car, poked_car,
                   runs>>

\* the bookkeeping of one get_vehicle_data call with outcome f: a poke sets the
\* global last_poke to the current time, which differs from every stored one
Bookkeep(f) ==
    /\ last_poke' = IF f = "poke" THEN Some("now") ELSE last_poke
    /\ poked_car' = (poked_car \/ f = "poke")

\* the outcomes get_vehicle_data can have in the current state, over every
\* behaviour of the API and the car
FetchOutcomesFrom(force_wake, poked, lp) ==
    {Fetch(script, force_wake, poked, lp, e.api_ok, e.awake, e.recent) : e \in Envs}
FetchOutcomes(force_wake) == FetchOutcomesFrom(force_wake, poked_car, last_poke)

\* if args.mileage: get_odometer, then the milestone test (all inside try)
Mileage ==
    /\ pc = "mileage"
    /\ \E f \in FetchOutcomes(FALSE), tweet \in TweetOutcomes :
         LET r == IF f = "fail" THEN MileageResult(data, FALSE, FALSE)
                  ELSE mileage(script, data, car, today, DEBUG_MODE, tweet)
         IN  /\ Bookkeep(f)
             /\ data' = r.data
             /\ data_changed' = (data_changed \/ r.changed)
             /\ hist' = IF r.announced
                          THEN [hist EXCEPT
                                   !.announced = @ \cup {Thousands(car)},
                                   !.twice = @ \/ Thousands(car) \in hist.announced]
                          ELSE hist
             /\ out' = [op |-> "mileage", fetch |-> f, announced |-> r.announced,
                        before |-> data.mileage_tweet]
    /\ pc' = NextPc(script, args, "mileage")
    /\ UNCHANGED <<lock, tmp, runs, script, DEBUG_MODE, file, args, retry, today, car>>

\* if args.chargecheck: is_charging, then the edge test (all inside try)
ChargeCheck ==
    /\ pc = "chargecheck"
    /\ \E f \in FetchOutcomes(FALSE), m \in BOOLEAN :
         LET r == IF f = "fail" THEN Change(data, FALSE) ELSE chargecheck(data, m)
         IN  /\ Bookkeep(f)
             /\ r.data.day_charges <= MaxDayCharges
             /\ data' = r.data
             /\ data_changed' = (data_changed \/ r.changed)
             /\ out' = [op |-> "chargecheck",
                        obs |-> IF f = "fail" THEN None ELSE Some(m),
                        before |-> [charging |-> data.charging,
                                    day_charges |-> data.day_charges]]
    /\ pc' = NextPc(script, args, "chargecheck")
    /\ UNCHANGED <<lock, tmp, runs, script, DEBUG_MODE, file, args, retry, today, car, hist>>

\* what get_current_state reads from the car: the odometer, and (tesla.py)
\* charge_energy_added when the vehicle reports a charge_state
CarSnapshots(s) ==
    IF s = "tesla" THEN {Snapshot(Some(car), e) : e \in {None, Some(20)}}
                   ELSE {Snapshot(Some(car), None)}

\* if args.state: up to STATE_RETRIES attempts of get_current_state (a failed
\* attempt leaves the poke bookkeeping alone), then the write into the AM or
\* PM bucket of today, chosen by the hour
State ==
    /\ pc = "state"
    /\ \E f \in FetchOutcomes(FALSE), n \in 1..STATE_RETRIES, hour \in Hours,
          snap \in CarSnapshots(script) :
         LET lp == IF f = "poke" THEN Some("now") ELSE last_poke
             r  == record_state(script, data, today, ampm(hour),
                                IF f = "fail" THEN None ELSE Some(snap),
                                was_car_poked(data, lp))
         IN  /\ f = "fail" => n = STATE_RETRIES
             /\ Bookkeep(f)
             /\ data' = r.data
             /\ data_changed' = (data_changed \/ r.changed)
             /\ out' = [op |-> "state", attempts |-> n, fetched |-> f # "fail",
                        hour |-> hour, marked |-> r.changed,
                        before |-> [am |-> data.daily_state_am[today],
                                    pm |-> data.daily_state_pm[today]]]
             /\ hist' = IF r.changed THEN [hist EXCEPT !.wrote = Some(hour)] ELSE hist
    /\ pc' = NextPc(script, args, "state")
    /\ UNCHANGED <<lock, tmp, runs, script, DEBUG_MODE, file, args, retry, today, car>>

\* elif not plugged_in: s = get_current_state(...); email(...): the alert is
\* sent when the car is not plugged in and the state for the message arrived
not_plugged_alert_never(plugged, fetched) == FALSE
not_plugged_alert(plugged, fetched) == ~plugged /\ fetched

\* if args.pluggedin: is_plugged_in, then (car not plugged in) a second fetch
\* by get_current_state and the alert email; all inside try, no DEBUG_MODE test
PluggedIn ==
    /\ pc = "pluggedin"
    /\ \E f \in FetchOutcomes(FALSE), plugged \in BOOLEAN :
         LET lp == IF f = "poke" THEN Some("now") ELSE last_poke
             pk == poked_car \/ f = "poke"
         IN  IF f = "fail" \/ plugged
               THEN /\ Bookkeep(f)
                    /\ out' = [op |-> "pluggedin",
                               plugged |-> IF f = "fail" THEN None ELSE Some(plugged),
                               state_fetched |-> FALSE, emailed |-> FALSE]
               ELSE \E g \in FetchOutcomesFrom(FALSE, pk, lp) :
                    /\ last_poke' = IF g = "poke" THEN Some("now") ELSE lp
                    /\ poked_car' = (pk \/ g = "poke")
                    /\ out' = [op |-> "pluggedin", plugged |-> Some(plugged),
                               state_fetched |-> g # "fail",
                               emailed |-> not_plugged_alert(plugged, g # "fail")]
    /\ pc' = NextPc(script, args, "pluggedin")
    /\ UNCHANGED <<lock, tmp, runs, script, DEBUG_MODE, file, data, data_changed, args, retry,
                   today, car, hist>>

\* if args.yesterday: nothing here is inside a try; an exception of
\* report_yesterday or tweet_string leaves main (none of them is an HTTPError)
Yesterday ==
    /\ pc = "yesterday"
    /\ \E weather_ok \in BOOLEAN, pics_ok \in BOOLEAN, tweet \in TweetOutcomes :
         LET r == report_yesterday(script, data, today, weather_ok, pics_ok)
             tweeted == Has(r.m) /\ ~DEBUG_MODE
             absent  == ~Has(AmOf(data, today)) \/ ~Has(AmOf(data, today - 1))
         IN  IF r.raised
               THEN /\ pc' = "except"
                    /\ out' = [op |-> "yesterday", raised |-> TRUE, m |-> None,
                               pic |-> None, absent |-> absent, exc |-> "fatal",
                               tweeted |-> FALSE]
                    /\ UNCHANGED <<lock, data, data_changed, hist>>
               ELSE /\ data' = [data EXCEPT !.day_charges = 0]
                    /\ data_changed' = TRUE
                    /\ hist' = [hist EXCEPT !.ran_yesterday = TRUE]
                    /\ IF tweeted /\ tweet = "raise"
                         THEN /\ pc' = "except"
                              /\ out' = [op |-> "yesterday", raised |-> TRUE, m |-> r.m,
                                         pic |-> r.pic, absent |-> absent, exc |-> "fatal",
                                         tweeted |-> tweeted]
                         ELSE /\ pc' = NextPc(script, args, "yesterday")
                              /\ out' = [op |-> "yesterday", raised |-> FALSE, m |-> r.m,
                                         pic |-> r.pic, absent |-> absent, exc |-> "none",
                                         tweeted |-> tweeted]
    /\ UNCHANGED <<lock, tmp, script, DEBUG_MODE, file, args, retry, today, car, last_poke,
                   poked_car, runs>>

\* if args.garage (tesla.py): trigger_garage_door pokes the car and sends the
\* command, outside any try
Garage ==
    /\ pc = "garage"
    /\ \E f \in FetchOutcomes(TRUE), command_ok \in BOOLEAN, kind \in ExcKinds :
         /\ Bookkeep(f)
         /\ IF f = "fail" \/ ~command_ok
              THEN /\ pc' = "except"
                   /\ out' = [op |-> "garage", exc |-> kind]
              ELSE /\ kind = "fatal"
                   /\ pc' = NextPc(script, args, "garage")
                   /\ out' = [op |-> "garage", exc |-> "none"]
    /\ UNCHANGED <<lock, tmp, runs, script, DEBUG_MODE, file, data, data_changed, args, retry, today,
                   car, hist>>

\* if args.sleepcheck (rivian.py): the except clause logs and re-raises
SleepCheck ==
    /\ pc = "sleepcheck"
    /\ \E f \in FetchOutcomes(FALSE), kind \in ExcKinds :
         /\ Bookkeep(f)
         /\ IF f = "fail"
              THEN /\ pc' = "except"
                   /\ out' = [op |-> "sleepcheck", exc |-> kind]
              ELSE /\ kind = "fatal"
                   /\ pc' = NextPc(script, args, "sleepcheck")
                   /\ out' = [op |-> "sleepcheck", exc |-> "none"]
    /\ UNCHANGED <<lock, tmp, runs, script, DEBUG_MODE, file, data, data_changed, args, retry, today,
                   car, hist>>

\* if args.firmware: data_changed = check_current_firmware_version(c, data)
Firmware ==
    /\ pc = "firmware"
    /\ \E f \in FetchOutcomes(FALSE), v \in Versions, tweet \in TweetOutcomes :
         LET observed == IF f = "fail" THEN None ELSE Some(v)
             r == check_current_firmware_version(script, data, observed, today)
             tweeted == Has(r.m) /\ ~DEBUG_MODE
             raised  == tweeted /\ tweet = "raise"
         IN  /\ Bookkeep(f)
             /\ data' = r.data
             /\ data_changed' = IF raised THEN data_changed ELSE r.changed
             /\ pc' = IF raised THEN "except" ELSE NextPc(script, args, "firmware")
             /\ out' = [op |-> "firmware", observed |-> observed, prev |-> data.firmware,
                        m |-> r.m, changed |-> r.changed, tweeted |-> tweeted,
                        exc |-> IF raised THEN "fatal" ELSE "none"]
    /\ UNCHANGED <<lock, tmp, runs, script, DEBUG_MODE, file, args, retry, today, car, hist>>

\* whether a run that loaded store a and ends with store b changed a field
\* (the "mileage_tweet" default of the --mileage block is not counted)
Mutated(a, b) == with_mileage_tweet(a) # with_mileage_tweet(b)

\* the end of main: (tesla.py) record the poke, then save if data_changed,
\* then remove_lock
End ==
    /\ pc = "end"
    /\ LET poked   == script = "tesla" /\ was_car_poked(data, last_poke)
           d       == IF poked THEN [data EXCEPT !.last_poke = last_poke] ELSE data
           changed == data_changed \/ poked
       IN  /\ file' = IF changed THEN save_data(file, d, DEBUG_MODE) ELSE file
           /\ out' = [op |-> "end", changed |-> changed,
                      mutated |-> Mutated(load_data(file), d)]
    /\ lock' = [lock EXCEPT !.path = 0]
    /\ hist' = [hist EXCEPT !.start = None, !.wrote = None]
    /\ pc' = "idle"
    /\ Resting
    /\ UNCHANGED <<tmp, script, DEBUG_MODE, today, car, runs>>

\* the except clauses of __main__ ("for retry in range(MAX_RETRIES)")
RETRY_SLEEP == 10

\* except HTTPError as e: if e.code >= 500 or e.code == 408
transient_any(exc) == TRUE
transient(exc) == exc = "retryable"

\* the for loop has another turn
another_turn(n) == n + 1 < MAX_RETRIES

\* everything else: if DEBUG_MODE: raise / else: mail_exception(...); break
mails_with_debug(exc, debug) == ~transient(exc)
mails_when_transient(exc, debug) == ~debug
mails(exc, debug) == ~transient(exc) /\ ~debug
reraises(exc, debug) == ~transient(exc) /\ debug

\* a transient HTTPError sleeps, removes the lock and lets the loop run main
\* again while turns remain; anything else is mailed (or re-raised under
\* DEBUG_MODE) and ends the loop
Handler ==
    /\ pc = "except"
    /\ lock' = IF transient(out.exc) THEN [lock EXCEPT !.path = 0] ELSE lock
    /\ IF transient(out.exc) /\ another_turn(retry)
         THEN /\ pc' = "main"
              /\ retry' = retry + 1
              /\ out' = [op |-> "retry", after |-> out.exc, delay |-> RETRY_SLEEP]
              /\ UNCHANGED <<data, data_changed, args, last_poke, poked_car, hist>>
         ELSE /\ pc' = "idle"
              /\ out' = [op |-> "abort", from |-> out.op, lost |-> data_changed,
                         exc |-> out.exc, attempts |-> retry + 1,
                         mailed |-> mails(out.exc, DEBUG_MODE),
                         reraised |-> reraises(out.exc, DEBUG_MODE),
                         saved |-> file # hist.start]
              /\ hist' = [hist EXCEPT !.start = None, !.wrote = None]
              /\ Resting
    /\ UNCHANGED <<tmp, script, DEBUG_MODE, file, today, car, runs>>

Next ==
    \/ Invoke
    \/ NewDay
    \/ Drive
    \/ EnterMain
    \/ Mileage
    \/ ChargeCheck
    \/ State
    \/ PluggedIn
    \/ Yesterday
    \/ Garage
    \/ SleepCheck
    \/ Firmware
    \/ End
    \/ Handler

Spec == Init /\ [][Next]_vars

(***************************************************************************)
(* Claims about main() (checked under Spec)                                *)
(***************************************************************************)
Persisted == load_data(file)

\* C2 (as stated): after a non-debug invocation that performed the
\* yesterday-report step and ran to the end of main, the persisted store has
\* day_charges = 0, whichever other operations were requested.
C2_PersistedChargesReset ==
    (out.op = "end" /\ ~DEBUG_MODE /\ hist.ran_yesterday) =>
        Persisted.day_charges = 0

\* C11 (as stated, "saved if mutated"): in a non-debug invocation that reaches
\* the end of main, the store is saved whenever the store main ends with
\* differs from the one it loaded, for every combination of flags.
C11_SavedIfMutated ==
    (out.op = "end" /\ ~DEBUG_MODE /\ out.mutated) => out.changed

\* a notification was handed to tweet_string or email by the last step
Dispatched ==
    \/ out.op = "mileage" /\ out.announced
    \/ out.op = "yesterday" /\ out.tweeted
    \/ out.op = "firmware" /\ out.tweeted
    \/ out.op = "pluggedin" /\ out.emailed
    \/ out.op = "abort" /\ out.mailed

\* C14 (as stated): with DEBUG_MODE set no operation hands a notification to
\* the tweet or email collaborator (milestone, yesterday report, firmware
\* message, plugged-in alert, alert mail of the top-level handler).
C14_DebugDispatchesNothing ==
    DEBUG_MODE => ~Dispatched

\* C19 (as stated): when the record-state operation could not fetch the
\* vehicle state it has made all STATE_RETRIES attempts, today's AM and PM
\* snapshots are what they were before the operation, and the operation did
\* not mark the store changed.
C19_FailedFetchWritesNothing ==
    (out.op = "state" /\ ~out.fetched) =>
        /\ out.attempts = STATE_RETRIES
        /\ data.daily_state_am[today] = out.before.am
        /\ data.daily_state_pm[today] = out.before.pm
        /\ ~out.marked

\* C20 (as stated): a failing collaborator never ends the invocation: main is
\* not left through an exception with the remaining operations unrun and a
\* store marked changed by an earlier operation left unsaved.
C20_FailureConfinedToOperation ==
    ~(out.op = "abort" /\ ~DEBUG_MODE /\ out.lost)

\* C21: main is attempted at most MAX_RETRIES times; another attempt starts
\* only after a transient HTTP error, after the fixed delay and with the lock
\* file removed; the end of main or any other exception ends the loop with
\* that attempt.
C21_BoundedRetryLoop ==
    /\ retry < MAX_RETRIES
    /\ out.op = "retry" =>
           /\ out.after = "retryable"
           /\ out.delay = RETRY_SLEEP
           /\ lock.path = 0
           /\ pc = "main"
    /\ out.op = "abort" =>
           /\ out.attempts <= MAX_RETRIES
           /\ out.exc # "retryable" => pc = "idle"
    /\ out.op = "end" => pc = "idle"

C21_Witness ==
    /\ out.op = "retry"
    /\ retry = MAX_RETRIES - 1
    /\ pc = "main"

\* C22: an exception leaving main that is not a transient HTTP error (the
\* lock exhaustion of get_lock included) ends the process in one handling:
\* without DEBUG_MODE the alert mail is sent and nothing is re-raised, with
\* DEBUG_MODE nothing is mailed and the exception is re-raised.
C22_FatalHandledOnce ==
    (out.op = "abort" /\ out.exc = "fatal") =>
        /\ pc = "idle"
        /\ out.mailed = ~DEBUG_MODE
        /\ out.reraised = DEBUG_MODE

C22_Witness ==
    /\ out.op = "abort"
    /\ out.from = "get_lock"
    /\ DEBUG_MODE
    /\ out.reraised

\* C24: the plugged-in check sends the alert exactly when the car was found
\* not plugged in and its current state could be fetched for the message;
\* it sends nothing when the car is plugged in or a fetch failed, and it
\* changes neither the store nor data_changed.
C24_PluggedInAlert ==
    [][pc = "pluggedin" =>
          /\ out'.op = "pluggedin"
          /\ out'.emailed <=> (out'.plugged = Some(FALSE) /\ out'.state_fetched)
          /\ data' = data
          /\ data_changed' = data_changed]_vars

C24_Witness ==
    /\ out.op = "pluggedin"
    /\ out.plugged = Some(FALSE)
    /\ out.state_fetched
    /\ out.emailed
    /\ data = load_data(file)

\* C26: a snapshot of the store in memory changes only in the record-state
\* operation, under today's date and in the bucket of the current hour (AM
\* when hour < 12); a snapshot of the state file changes only at the save at
\* the end of main of an invocation whose record-state operation wrote it,
\* again under today's date and in that bucket.
Bucket(d, day, am) == IF am THEN d.daily_state_am[day] ELSE d.daily_state_pm[day]
C28_ExhaustedRetriesEndSilently ==
    (out.op = "abort" /\ out.exc = "retryable") =>
        /\ out.attempts = MAX_RETRIES
        /\ ~out.mailed
        /\ ~out.reraised
        /\ ~out.saved

C28_Witness ==
    /\ out.op = "abort"
    /\ out.exc = "retryable"
    /\ out.attempts = MAX_RETRIES
    /\ out.lost
    /\ ~DEBUG_MODE

\* the parts of C30, for tesla.py.  A run that has poked never answers a
\* fetch from the cache; a run that has not poked does not poke an awake car
\* whose last poke is recent; --state writes a snapshot only in a run that
\* has poked; a run that poked ends (DEBUG_MODE off) in the save at the end
\* of main, with a last_poke in the file.
LaterFetchesPoke ==
    (script = "tesla" /\ poked_car) => "cached" \notin FetchOutcomes(FALSE)
RecentPokeNotRepeated ==
    (script = "tesla" /\ ~poked_car /\ Has(last_poke)) =>
        \A e \in Envs :
            (e.api_ok /\ e.awake /\ e.recent) =>
                Fetch(script, FALSE, poked_car, last_poke, e.api_ok, e.awake, e.recent)
                    = "cached"
SnapshotOnlyWhenPoked ==
    (script = "tesla" /\ out.op = "state" /\ out.marked) => poked_car
PokeReachesTheFile ==
    (script = "tesla" /\ ~DEBUG_MODE /\ poked_car /\ pc # "idle" /\ pc' = "idle") =>
        /\ out'.op = "end"
        /\ out'.changed
        /\ Has(file')
        /\ Has(Val(file').last_poke)

\* C30 (as stated): in the Tesla script every fetch after a poke pokes, an
\* awake car poked less than 18 minutes ago is not poked by an unforced
\* fetch, --state writes a snapshot only if the car was poked in this run,
\* and every run that poked the car ends with its last poke stored and the
\* store saved.
C30_PokeDiscipline ==
    /\ [](LaterFetchesPoke /\ RecentPokeNotRepeated /\ SnapshotOnlyWhenPoked)
    /\ [][PokeReachesTheFile]_vars

\* C6: when yesterday's or today's AM snapshot is absent, report_yesterday
\* returns no message and no picture and raises nothing; main resets
\* day_charges, marks the store changed and goes on to the next requested
\* operation (or to the save at the end of main).
C6_AbsentSnapshotSoftSkip ==
    (out.op = "yesterday" /\ out.absent) =>
        /\ ~out.raised
        /\ out.m = None
        /\ out.pic = None
        /\ pc = NextPc(script, args, "yesterday")
        /\ data.day_charges = 0
        /\ data_changed

C6_Witness ==
    /\ out.op = "yesterday"
    /\ out.absent
    /\ ~out.raised
    /\ pc = "firmware"

\* C7 (as stated): a mileage check announces a milestone only if
\* floor(odometer / 1000) > floor(last announced / 1000), and no 1000-mile
\* boundary is announced twice, re-attempts by the retry loop included.
C7_MilestoneAnnouncedOnce ==
    /\ (out.op = "mileage" /\ out.announced) =>
          Thousands(car) > Thousands(IF Has(out.before) THEN Val(out.before) ELSE 0)
    /\ ~hist.twice

FirmwareChecked == out.op = "firmware" /\ Has(out.observed)

C9_NewVersionStampedToday ==
    (FirmwareChecked /\ Has(out.prev) /\ Val(out.prev).version # out.observed) =>
        /\ data.firmware = Some(FirmwareRecord(out.observed, today))
        /\ out.changed
        /\ out.m = Some(FirmwareMessage("found", out.observed,
                                        today - Val(out.prev).date_detected))

C9_Witness ==
    /\ FirmwareChecked
    /\ Has(out.prev)
    /\ Val(out.prev).version # out.observed
    /\ Val(data.firmware).date_detected > Val(out.prev).date_detected
    /\ Has(out.m)
    /\ Val(out.m).kind = "found"
    /\ Val(out.m).days > 0

\* C10 (as stated): when the vehicle data cannot be fetched during the
\* firmware check, the stored firmware record is unchanged, no message is
\* produced and the check reports the store as not changed.
C10_FetchFailureSkipsFirmware ==
    (out.op = "firmware" /\ out.observed = None) =>
        /\ data.firmware = out.prev
        /\ out.m = None
        /\ ~out.changed

(***************************************************************************)
(* Specification SpecPolls: a sequence of non-debug "--chargecheck"        *)
(* invocations, each one a whole run of main (load, poll, save), with no   *)
(* yesterday report in between.                                            *)
(***************************************************************************)
PolledStores ==
    {None} \cup {Some([DefaultStore EXCEPT !.charging = c, !.day_charges = n]) :
                    c \in BOOLEAN, n \in 0..MaxDayCharges}

InitPolls ==
    /\ script \in Scripts
    /\ DEBUG_MODE = FALSE
    /\ file \in PolledStores
    /\ tmp = None
    /\ data = DefaultStore
    /\ data_changed = FALSE
    /\ args = {"chargecheck"}
    /\ pc = "idle"
    /\ retry = 0
    /\ today = 0
    /\ car = 990
    /\ last_poke = None
    /\ poked_car = FALSE
    /\ runs = 0
    /\ out = Idle
    /\ hist = [start |-> file, polls |-> <<>>, increments |-> 0, toggles |-> 0]
    /\ lock = NoLock

\* main() with args = --chargecheck in a fresh process
Poll ==
    /\ runs < MaxPolls
    /\ runs' = runs + 1
    /\ LET d0 == load_data(file)
           lp == load_last_poke(d0, None)
       IN  \E e \in Envs, m \in BOOLEAN :
             LET f  == Fetch(script, FALSE, FALSE, lp, e.api_ok, e.awake, e.recent)
                 r  == IF f = "fail" THEN Change(d0, FALSE) ELSE chargecheck(d0, m)
                 lq == IF f = "poke" THEN Some("now") ELSE lp
                 poked   == script = "tesla" /\ was_car_poked(r.data, lq)
                 d1      == IF poked THEN [r.data EXCEPT !.last_poke = lq] ELSE r.data
                 changed == r.changed \/ poked
                 obs     == IF f = "fail" THEN None ELSE Some(m)
             IN  /\ file' = IF changed THEN save_data(file, d1, DEBUG_MODE) ELSE file
                 /\ out' = [op |-> "poll", obs |-> obs,
                            before |-> [charging |-> d0.charging,
                                        day_charges |-> d0.day_charges]]
                 /\ hist' = [hist EXCEPT
                               !.polls = Append(@, obs),
                               !.increments = @ + (d1.day_charges - d0.day_charges),
                               !.toggles = @ + (IF d1.charging # d0.charging THEN 1 ELSE 0)]
    /\ UNCHANGED <<lock, tmp, script, DEBUG_MODE, data, data_changed, args, pc, retry, today, car,
                   last_poke, poked_car>>

NextPolls == Poll

SpecPolls == InitPolls /\ [][NextPolls]_vars

ScenarioPolls == <<Some(FALSE), Some(FALSE), Some(TRUE), Some(TRUE), Some(FALSE)>>

\* C1: on each charge-check poll the persisted day_charges grows by 1 when the
\* stored charging flag is false and the car is seen charging and by 0
\* otherwise, and the stored flag changes exactly when the observation differs
\* from it; the polls [not-charging, not-charging, charging, charging,
\* not-charging] on a default store give one increment and two toggles.
C1_ChargeEdgeDetection ==
    /\ out.op = "poll" =>
          /\ Persisted.day_charges - out.before.day_charges =
                IF ~out.before.charging /\ out.obs = Some(TRUE) THEN 1 ELSE 0
          /\ (Persisted.charging # out.before.charging)
                <=> (Has(out.obs) /\ Val(out.obs) # out.before.charging)
    /\ (hist.start = None /\ hist.polls = ScenarioPolls) =>
          /\ hist.increments = 1
          /\ hist.toggles = 2
          /\ Persisted.day_charges = 1
          /\ ~Persisted.charging

C1_Witness ==
    /\ hist.start = None
    /\ hist.polls = ScenarioPolls
    /\ hist.increments = 1
    /\ hist.toggles = 2

(***************************************************************************)
(* Specification SpecSave: save_data step by step.  file is the content of *)
(* DATA_FILE (None: no such file), tmp the content of DATA_FILE + ".tmp".  *)
(* The process can die between any two steps; the next invocation loads    *)
(* what the canonical path holds.                                          *)
(***************************************************************************)
\* an opened, not yet completely written file
Partial == [partial |-> TRUE]

\* "if not DEBUG_MODE": where save_data goes first
save_entry_always(debug) == "open"
save_entry(debug) == IF debug THEN "return" ELSE "open"

InitSave ==
    /\ script \in Scripts
    /\ DEBUG_MODE \in BOOLEAN
    /\ file \in {None, Some(SeedStore(script, {0, 1}))}
    /\ tmp = None
    /\ data = DefaultStore
    /\ data_changed = FALSE
    /\ args = {}
    /\ pc = "idle"
    /\ retry = 0
    /\ today = 1
    /\ car = 990
    /\ last_poke = None
    /\ poked_car = FALSE
    /\ runs = 0
    /\ out = Idle
    /\ hist = [start |-> file, prev |-> file, new |-> file]
    /\ lock = NoLock

\* main loaded the store, changed it and calls save_data(data)
SaveCall ==
    /\ pc = "idle"
    /\ runs < MaxSaves
    /\ runs' = runs + 1
    /\ \E c \in BOOLEAN, n \in 0..MaxDayCharges :
          data' = [load_data(file) EXCEPT !.charging = c, !.day_charges = n]
    /\ data_changed' = TRUE
    /\ hist' = [hist EXCEPT !.prev = file, !.new = Some(data')]
    /\ pc' = save_entry(DEBUG_MODE)
    /\ out' = [op |-> "save"]
    /\ UNCHANGED <<lock, script, DEBUG_MODE, file, tmp, args, retry, today, car, last_poke,
                   poked_car>>

\* open(DATA_FILE + ".tmp", "w")
OpenTmp ==
    /\ pc = "open"
    /\ tmp' = Some(Partial)
    /\ pc' = "dump"
    /\ UNCHANGED <<lock, script, DEBUG_MODE, file, data, data_changed, args, retry, today, car,
                   last_poke, poked_car, runs, out, hist>>

\* json.dump(data, ...)
WriteTmp ==
    /\ pc = "dump"
    /\ tmp' = Some(data)
    /\ pc' = "remove"
    /\ UNCHANGED <<lock, script, DEBUG_MODE, file, data, data_changed, args, retry, today, car,
                   last_poke, poked_car, runs, out, hist>>

\* if os.path.exists(DATA_FILE): os.remove(DATA_FILE)
RemoveOld ==
    /\ pc = "remove"
    /\ file' = None
    /\ pc' = "rename"
    /\ UNCHANGED <<lock, script, DEBUG_MODE, tmp, data, data_changed, args, retry, today, car,
                   last_poke, poked_car, runs, out, hist>>

\* os.rename(DATA_FILE + ".tmp", DATA_FILE)
Rename ==
    /\ pc = "rename"
    /\ file' = tmp
    /\ tmp' = None
    /\ pc' = "return"
    /\ UNCHANGED <<lock, script, DEBUG_MODE, data, data_changed, args, retry, today, car,
                   last_poke, poked_car, runs, out, hist>>

SaveReturn ==
    /\ pc = "return"
    /\ pc' = "idle"
    /\ out' = [op |-> "saved"]
    /\ UNCHANGED <<lock, script, DEBUG_MODE, file, tmp, data, data_changed, args, retry, today,
                   car, last_poke, poked_car, runs, hist>>

\* the process is killed (or the machine stops) inside save_data
Crash ==
    /\ pc \in {"open", "dump", "remove", "rename"}
    /\ pc' = "idle"
    /\ out' = [op |-> "crash"]
    /\ UNCHANGED <<lock, script, DEBUG_MODE, file, tmp, data, data_changed, args, retry, today,
                   car, last_poke, poked_car, runs, hist>>

NextSave ==
    \/ SaveCall
    \/ OpenTmp
    \/ WriteTmp
    \/ RemoveOld
    \/ Rename
    \/ SaveReturn
    \/ Crash

SpecSave == InitSave /\ [][NextSave]_vars

\* C12 (as stated): at every step of save_data, a crash between two steps
\* included, the canonical path holds the complete previous document or the
\* complete new one, and is never missing once it existed.
C12_CanonicalCompleteAtEveryStep ==
    /\ file \in {hist.prev, hist.new}
    /\ Has(hist.prev) => Has(file)

\* C13: with DEBUG_MODE set, save_data changes neither DATA_FILE nor its
\* temporary file, over any number of calls.
C13_DebugSaveIsNoOp ==
    DEBUG_MODE => (file = hist.start /\ tmp = None)

C13_Witness ==
    /\ DEBUG_MODE
    /\ out.op = "saved"
    /\ runs = MaxSaves
    /\ Has(hist.start)
    /\ hist.new # hist.start
    /\ file = hist.start

(***************************************************************************)
(* Specification SpecStore: the store as the Python dict load_data returns *)
(* and as the JSON document save_data writes.  A dict is a function from   *)
(* its keys; a document holds JSON values tagged with their JSON type.     *)
(* A process loads, the operations of main change the dict, the process    *)
(* saves and ends; the next process loads what was saved.                  *)
(***************************************************************************)
MaxMicrosecond == 1

Loaders == Scripts \cup {"solarcity"}

EmptyDict == <<>>
Put(d, k, v) == [x \in DOMAIN d \cup {k} |-> IF x = k THEN v ELSE d[x]]
Del(d, k) == [x \in DOMAIN d \ {k} |-> d[x]]
SetDefault(d, k, v) == IF k \in DOMAIN d THEN d ELSE Put(d, k, v)
Restrict(d, ks) == [x \in DOMAIN d \cap ks |-> d[x]]

\* datetime.isoformat(): the fraction is printed only when microsecond # 0
isoformat(dt) ==
    IF dt.microsecond = 0
      THEN [second |-> dt.second]
      ELSE [second |-> dt.second, fraction |-> dt.microsecond]

\* datetime.strptime(text, '%Y-%m-%dT%H:%M:%S.%f'): None stands for the
\* ValueError raised when the text does not match the format
strptime(text) ==
    IF "fraction" \in DOMAIN text
      THEN Some([second |-> text.second, microsecond |-> text.fraction])
      ELSE None

\* json.dump: each value of the dict becomes a JSON value of its type
json_snapshots(m) ==
    [t \in DOMAIN m |-> IF IsNull(m[t]) THEN <<"null">> ELSE <<"object", m[t]>>]
json_value(k, v) ==
    CASE k \in {"day_charges", "mileage_tweet"} -> <<"number", v>>
      [] k = "charging" -> <<"boolean", v>>
      [] k = "last_poke" -> <<"string", v>>
      [] k \in {"daily_state_am", "daily_state_pm"} -> <<"object", json_snapshots(v)>>
      [] OTHER -> <<"object", v>>
json_dump(d) == [k \in DOMAIN d |-> json_value(k, d[k])]

\* json.load: null becomes None, every other JSON value its Python value
python_snapshots(m) ==
    [t \in DOMAIN m |-> IF m[t][1] = "null" THEN NullSnapshot ELSE m[t][2]]
python_value(k, j) ==
    IF k \in {"daily_state_am", "daily_state_pm"} THEN python_snapshots(j[2]) ELSE j[2]
json_load(doc) == [k \in DOMAIN doc |-> python_value(k, doc[k])]

Loaded(raised, d) == [raised |-> raised, data |-> d]

\* load_data of tesla.py and rivian.py on the content f of DATA_FILE
load_data_file(s, f) ==
    LET d0 == IF Has(f) THEN json_load(Val(f)) ELSE Put(EmptyDict, "daily_state", EmptyDict)
        d1 == SetDefault(d0, "daily_state_pm", EmptyDict)
        d2 == SetDefault(d1, "daily_state_am", EmptyDict)
        d3 == Del(d2, "config")
        d4 == SetDefault(d3, "day_charges", 0)
        d5 == SetDefault(d4, "charging", FALSE)
    IN  IF s = "tesla" /\ "last_poke" \in DOMAIN d5 /\ ~Has(strptime(d5["last_poke"]))
          THEN Loaded(TRUE, EmptyDict)
          ELSE Loaded(FALSE, d5)

\* load_data of solarcity.py: len(data['data']) is evaluated for the log line
\* before anything is defaulted (KeyError when the section is missing)
DefaultConfig == Put(EmptyDict, "lastdailytweet", "20010101")
solarcity_load_data(f) ==
    IF ~Has(f)
      THEN Loaded(FALSE, Put(Put(EmptyDict, "config", DefaultConfig), "data", EmptyDict))
      ELSE LET d == json_load(Val(f))
           IN  IF "data" \notin DOMAIN d
                 THEN Loaded(TRUE, EmptyDict)
                 ELSE Loaded(FALSE, SetDefault(d, "config", DefaultConfig))

Loader(s, f) == IF s = "solarcity" THEN solarcity_load_data(f) ELSE load_data_file(s, f)

\* documents of earlier versions of the scripts: any subset of the fields
FullDict(s) ==
    IF s = "solarcity"
      THEN Put(Put(EmptyDict, "config", DefaultConfig), "data", EmptyDict)
      ELSE [k \in {"daily_state", "daily_state_am", "daily_state_pm", "config",
                   "day_charges", "charging", "last_poke", "mileage_tweet", "firmware"} |->
              CASE k = "daily_state" -> EmptyDict
                [] k = "daily_state_am" -> Put(EmptyDict, 0, Val(SeedSnapshot(s, 0)))
                [] k = "daily_state_pm" -> Put(EmptyDict, 0, Val(SeedSnapshot(s, 0)))
                [] k = "config" -> EmptyDict
                [] k = "day_charges" -> 1
                [] k = "charging" -> TRUE
                [] k = "last_poke" -> isoformat([second |-> 0, microsecond |-> 1])
                [] k = "mileage_tweet" -> 0
                [] k = "firmware" -> FirmwareRecord("2023.44", 0)]
OldFiles(s) == {Some(json_dump(Restrict(FullDict(s), ks))) : ks \in SUBSET DOMAIN FullDict(s)}

InitStore ==
    /\ script \in Loaders
    /\ DEBUG_MODE = FALSE
    /\ file \in {None} \cup OldFiles(script)
    /\ tmp = None
    /\ data = EmptyDict
    /\ data_changed = FALSE
    /\ args = {}
    /\ pc = "idle"
    /\ retry = 0
    /\ today = 1
    /\ car = 990
    /\ last_poke = None
    /\ poked_car = FALSE
    /\ runs = 0
    /\ out = Idle
    /\ hist = [origin |-> IF Has(file) THEN "file" ELSE "default", saved |-> None]
    /\ lock = NoLock

\* data = load_data() of a new process
StoreLoad ==
    /\ pc = "idle"
    /\ LET r == Loader(script, file)
       IN  /\ data' = r.data
           /\ pc' = IF r.raised THEN "failed" ELSE "loaded"
           /\ out' = [op |-> "load", raised |-> r.raised, saved |-> hist.saved]
    /\ UNCHANGED <<lock, script, DEBUG_MODE, file, tmp, data_changed, args, retry, today, car,
                   last_poke, poked_car, runs, hist>>

\* the operations of main change the dict of a store that began as the default
Mutable ==
    /\ pc = "loaded"
    /\ script \in Scripts
    /\ hist.origin = "default"
    /\ ~Has(hist.saved)

Mutate(d) ==
    /\ data' = d
    /\ data_changed' = TRUE
    /\ out' = [op |-> "mutate"]
    /\ UNCHANGED <<lock, script, DEBUG_MODE, file, tmp, args, pc, retry, today, car, last_poke,
                   poked_car, runs, hist>>

\* --chargecheck: data["charging"] and data["day_charges"]
StoreChargeCheck ==
    /\ Mutable
    /\ \E c \in BOOLEAN :
         Mutate(Put(Put(data, "charging", c), "day_charges",
                    IF c /\ ~data["charging"] /\ data["day_charges"] < MaxDayCharges
                      THEN data["day_charges"] + 1 ELSE data["day_charges"]))

\* --state: data["daily_state_am" | "daily_state_pm"][ts] = s
StoreState ==
    /\ Mutable
    /\ \E am \in BOOLEAN, snap \in CarSnapshots(script), fetched \in BOOLEAN :
         LET r == record_state(script, DefaultStore, today, am,
                               IF fetched THEN Some(snap) ELSE None, TRUE)
             k == IF am THEN "daily_state_am" ELSE "daily_state_pm"
             v == Val(IF am THEN r.data.daily_state_am[today]
                            ELSE r.data.daily_state_pm[today])
         IN  /\ r.changed
             /\ Mutate(Put(data, k, Put(data[k], today, v)))

\* --mileage: data["mileage_tweet"] = 0, then = m
StoreMileage ==
    /\ Mutable
    /\ \E m \in {0} \cup CarOdometers : Mutate(Put(data, "mileage_tweet", m))

\* --firmware: data["firmware"] = {version, date_detected}
StoreFirmware ==
    /\ Mutable
    /\ \E v \in Versions : Mutate(Put(data, "firmware", FirmwareRecord(v, today)))

\* --yesterday: data["day_charges"] = 0
StoreYesterday ==
    /\ Mutable
    /\ Mutate(Put(data, "day_charges", 0))

\* the end of main (tesla.py): data["last_poke"] = last_poke.isoformat(),
\* last_poke being the datetime.now() of the poke
StorePoke ==
    /\ Mutable
    /\ script = "tesla"
    /\ \E us \in 0..MaxMicrosecond :
         Mutate(Put(data, "last_poke", isoformat([second |-> today, microsecond |-> us])))

\* save_data(data), and the process ends
StoreSave ==
    /\ pc = "loaded"
    /\ ~Has(hist.saved)
    /\ file' = Some(json_dump(data))
    /\ hist' = [hist EXCEPT !.saved = Some(data)]
    /\ data' = EmptyDict
    /\ data_changed' = FALSE
    /\ pc' = "idle"
    /\ out' = [op |-> "save"]
    /\ UNCHANGED <<lock, script, DEBUG_MODE, tmp, args, retry, today, car, last_poke, poked_car,
                   runs>>

NextStore ==
    \/ StoreLoad
    \/ StoreChargeCheck
    \/ StoreState
    \/ StoreMileage
    \/ StoreFirmware
    \/ StoreYesterday
    \/ StorePoke
    \/ StoreSave

SpecStore == InitStore /\ [][NextStore]_vars

\* C15 (as stated): a store that began as the default store and was changed by
\* any operations of main is, once saved, loaded again without failure and
\* equal to the store that was saved.
C15_SaveLoadRoundTrip ==
    (out.op = "load" /\ hist.origin = "default" /\ Has(out.saved)) =>
        (~out.raised /\ data = Val(out.saved))

\* C16 (as stated): loading a file of an earlier version (or no file) never
\* fails; the vehicle loaders return a store with both snapshot maps,
\* day_charges (0 when absent) and charging (false when absent) and every
\* stored field as stored; the solar loader returns a store with its config
\* and data sections.
StoredDict == IF Has(file) THEN json_load(Val(file)) ELSE EmptyDict
C16_LoadDefaultsAbsentFields ==
    (out.op = "load" /\ ~Has(out.saved)) =>
        /\ ~out.raised
        /\ script \in Scripts =>
             /\ {"daily_state_am", "daily_state_pm", "day_charges", "charging"}
                    \subseteq DOMAIN data
             /\ "day_charges" \notin DOMAIN StoredDict => data["day_charges"] = 0
             /\ "charging" \notin DOMAIN StoredDict => data["charging"] = FALSE
             /\ \A k \in DOMAIN StoredDict \ {"config"} : data[k] = StoredDict[k]
        /\ script = "solarcity" => {"config", "data"} \subseteq DOMAIN data

(***************************************************************************)
(* Specification SpecLock: get_lock / remove_lock of MaxProcs overlapping  *)
(* processes of one script.  open() and flock() are separate system calls; *)
(* fp is a local variable of get_lock, so the open file (and with it the   *)
(* flock) lives until the interpreter finalises it: at the return of       *)
(* get_lock (reference counting) or not before the process exits.          *)
(***************************************************************************)
\* open(lockfile, 'w'): the inode the name refers to, created when missing
open_inode(l) == IF l.path # 0 THEN l.path ELSE l.made + 1

\* fcntl.flock(fp.fileno(), LOCK_EX | LOCK_NB) is granted when no other open
\* file holds the lock of the inode
flock_granted(l, p) == l.holder[l.proc[p].fp] = 0

\* except: max_wait_count -= 1; if max_wait_count == 0: raise ...; sleep
after_failure_sleep(w) == "sleep"
after_failure(w) == IF w = 0 THEN "raised" ELSE "sleep"

\* closing the open file of p drops the flock it holds
released(l, p) == [i \in Inodes |-> IF l.holder[i] = p THEN 0 ELSE l.holder[i]]

LockFrame ==
    UNCHANGED <<script, DEBUG_MODE, file, tmp, data, data_changed, args, pc, retry, today,
                car, last_poke, poked_car, runs, out, hist>>

InitLock ==
    /\ script \in Scripts
    /\ DEBUG_MODE = FALSE
    /\ file = None
    /\ tmp = None
    /\ data = DefaultStore
    /\ data_changed = FALSE
    /\ args = {}
    /\ pc = "idle"
    /\ retry = 0
    /\ today = 1
    /\ car = 990
    /\ last_poke = None
    /\ poked_car = FALSE
    /\ runs = 0
    /\ out = Idle
    /\ hist = None
    /\ lock = NoLock

\* cron starts a process; main calls get_lock()
LockStart(p) ==
    /\ lock.proc[p].pc = "idle"
    /\ lock' = [lock EXCEPT !.proc[p].pc = "open"]
    /\ LockFrame

\* fp = open(lockfile, 'w')
LockOpen(p) ==
    /\ lock.proc[p].pc = "open"
    /\ lock' = [lock EXCEPT !.path = open_inode(lock),
                            !.made = IF lock.path = 0 THEN @ + 1 ELSE @,
                            !.proc[p].fp = open_inode(lock),
                            !.proc[p].pc = "flock"]
    /\ LockFrame

\* try: flock(...); blocked = False / except: count down, raise or sleep
LockFlock(p) ==
    /\ lock.proc[p].pc = "flock"
    /\ IF flock_granted(lock, p)
         THEN lock' = [lock EXCEPT !.holder[lock.proc[p].fp] = p,
                                   !.proc[p].tries = @ + 1,
                                   !.proc[p].pc = "return"]
         ELSE LET w == lock.proc[p].max_wait_count - 1
              IN  lock' = [lock EXCEPT !.proc[p].max_wait_count = w,
                                       !.proc[p].tries = @ + 1,
                                       !.proc[p].fp = IF after_failure(w) = "raised"
                                                        THEN 0 ELSE @,
                                       !.proc[p].pc = after_failure(w)]
    /\ LockFrame

\* time.sleep(30), then the next turn of the loop
LockSleep(p) ==
    /\ lock.proc[p].pc = "sleep"
    /\ lock' = [lock EXCEPT !.proc[p].pc = "open"]
    /\ LockFrame

\* get_lock returns: fp goes out of scope and is closed now or kept open
LockReturn(p) ==
    /\ lock.proc[p].pc = "return"
    /\ \E closed \in BOOLEAN :
         lock' = [lock EXCEPT !.holder = IF closed THEN released(lock, p) ELSE @,
                              !.proc[p].fp = IF closed THEN 0 ELSE @,
                              !.proc[p].pc = "main"]
    /\ LockFrame

\* the end of main: remove_lock()
RemoveLock(p) ==
    /\ lock.proc[p].pc = "main"
    /\ lock' = [lock EXCEPT !.path = 0, !.proc[p].pc = "exit"]
    /\ LockFrame

\* an exception leaves main and the handler mails it: no remove_lock()
LockAbort(p) ==
    /\ lock.proc[p].pc = "main"
    /\ lock' = [lock EXCEPT !.proc[p].pc = "exit"]
    /\ LockFrame

\* the process ends, its files are closed
LockExit(p) ==
    /\ lock.proc[p].pc = "exit"
    /\ lock' = [lock EXCEPT !.holder = released(lock, p),
                            !.proc[p].fp = 0,
                            !.proc[p].pc = "done"]
    /\ LockFrame

NextLock ==
    \E p \in Procs :
        \/ LockStart(p)
        \/ LockOpen(p)
        \/ LockFlock(p)
        \/ LockSleep(p)
        \/ LockReturn(p)
        \/ RemoveLock(p)
        \/ LockAbort(p)
        \/ LockExit(p)

SpecLock == InitLock /\ [][NextLock]_vars

InMain(p) == lock.proc[p].pc = "main"

\* C17 (as stated): at most one process at a time is between its successful
\* get_lock and its remove_lock.
C17_MutualExclusion ==
    \A p, q \in Procs : (InMain(p) /\ InMain(q)) => p = q

\* C18: get_lock makes at most MAX_WAIT_COUNT lock attempts; while it loops
\* fewer than MAX_WAIT_COUNT attempts have failed; it raises exactly when the
\* MAX_WAIT_COUNT-th attempt failed; it returns only from an attempt that was
\* granted, holding the lock of the file it opened.
C18_BoundedAttemptsThenRaise ==
    \A p \in Procs :
        LET P == lock.proc[p]
            failed == MAX_WAIT_COUNT - P.max_wait_count
        IN  /\ P.tries <= MAX_WAIT_COUNT
            /\ P.pc \in {"open", "flock", "sleep"} =>
                   (P.tries = failed /\ failed < MAX_WAIT_COUNT)
            /\ P.pc = "raised" => (P.tries = MAX_WAIT_COUNT /\ failed = MAX_WAIT_COUNT)
            /\ P.pc = "return" =>
                   (P.tries = failed + 1 /\ lock.holder[P.fp] = p)

C18_Witness ==
    \E p, q \in Procs :
        /\ lock.proc[p].pc = "raised"
        /\ lock.proc[p].tries = MAX_WAIT_COUNT
        /\ lock.proc[q].pc = "return"
        /\ lock.holder[lock.proc[q].fp] = q

(***************************************************************************)
(* Specification SpecTweet: tweet_string (tl_tweets.py) step by step.  The *)
(* inputs of a call are drawn in the initial state: whether a picture is   *)
(* attached, whether the configuration is complete, whether the upload     *)
(* works, and what each create_tweet call does ("ok", an Exception, or a   *)
(* BaseException that is not an Exception).                                *)
(***************************************************************************)
TWEET_TRIES == 2
CreateOutcomes == {"ok", "exception", "base"}
TweetCalls ==
    [media : BOOLEAN, config_ok : BOOLEAN, upload_ok : BOOLEAN,
     create : [1..TWEET_TRIES -> CreateOutcomes]]

NoTweet == [op |-> "tweet_string", posted |-> FALSE, raised |-> FALSE, emailed |-> FALSE,
            printed |-> FALSE, failures |-> 0]

InitTweet ==
    /\ script \in Scripts
    /\ DEBUG_MODE \in BOOLEAN
    /\ file = None
    /\ tmp = None
    /\ data = DefaultStore
    /\ data_changed = FALSE
    /\ args \in TweetCalls
    /\ pc = "check_twitter_config"
    /\ retry = 0
    /\ today = 1
    /\ car = 990
    /\ last_poke = None
    /\ poked_car = FALSE
    /\ runs = 0
    /\ out = NoTweet
    /\ hist = None
    /\ lock = NoLock

TweetFrame ==
    UNCHANGED <<script, DEBUG_MODE, file, tmp, data, data_changed, args, today, car,
                last_poke, poked_car, runs, hist, lock>>

\* check_twitter_config(): raises when a credential is missing
TweetCheckConfig ==
    /\ pc = "check_twitter_config"
    /\ IF args.config_ok
         THEN pc' = "media_upload" /\ out' = out
         ELSE pc' = "done" /\ out' = [out EXCEPT !.raised = TRUE]
    /\ UNCHANGED retry
    /\ TweetFrame

\* if media: ... oldapi.media_upload(filename=media), outside any try
TweetUpload ==
    /\ pc = "media_upload"
    /\ IF args.media /\ ~args.upload_ok
         THEN pc' = "done" /\ out' = [out EXCEPT !.raised = TRUE, !.failures = @ + 1]
         ELSE pc' = "create_tweet" /\ out' = out
    /\ UNCHANGED retry
    /\ TweetFrame

\* while retries < 2: try: api.create_tweet(...); break
\* except Exception as e: ...; twitter_auth_issue(e); return
\* except: log; then retries += 1 and the sleep
TweetCreate ==
    /\ pc = "create_tweet"
    /\ IF retry < TWEET_TRIES
         THEN LET o == args.create[retry + 1]
              IN  CASE o = "ok" ->
                         /\ pc' = "done"
                         /\ out' = [out EXCEPT !.posted = TRUE]
                         /\ UNCHANGED retry
                    [] o = "exception" ->
                         /\ pc' = "done"
                         /\ out' = [out EXCEPT !.printed = TRUE, !.failures = @ + 1]
                         /\ UNCHANGED retry
                    [] OTHER ->
                         /\ pc' = "sleep"
                         /\ out' = [out EXCEPT !.failures = @ + 1]
                         /\ retry' = retry + 1
         ELSE /\ pc' = "done"
              /\ out' = out
              /\ UNCHANGED retry
    /\ TweetFrame

\* time.sleep(random.randrange(5, 10 * retries))
TweetSleep ==
    /\ pc = "sleep"
    /\ pc' = "create_tweet"
    /\ UNCHANGED <<retry, out>>
    /\ TweetFrame

NextTweet ==
    \/ TweetCheckConfig
    \/ TweetUpload
    \/ TweetCreate
    \/ TweetSleep

SpecTweet == InitTweet /\ [][NextTweet]_vars

\* C23 (as stated): when posting failed, tweet_string in normal mode has
\* caught the failure, retried, and handed an alert to the email collaborator
\* without raising; in dry-run mode it has sent no alert and raised.
C23_TweetFailureReported ==
    (pc = "done" /\ out.failures > 0 /\ ~out.posted) =>
        IF DEBUG_MODE THEN out.raised /\ ~out.emailed
                      ELSE ~out.raised /\ out.emailed

(***************************************************************************)
(* Specification SpecUnits: show_with_units (solarcity.py).  A generation  *)
(* is the exact rational num / den * 1000^exp kWh (den 100: hundredths);   *)
(* with exp > 0 the mantissa num / den is at least 1, so the value is at   *)
(* least 1000.  The inputs avoid ties of the one-decimal rounding.         *)
(***************************************************************************)
MaxStep == 20

UnitNames == <<"kWh", "MWh", "GWh">>
Mantissas ==
    {100 * k : k \in 0..MaxStep} \cup {99990 + 2 * k : k \in 0..MaxStep}
        \cup {50000 * k : k \in 1..4}
Generations ==
    {[num |-> n, den |-> 100, exp |-> e] : n \in Mantissas, e \in 0..3}
        \ {[num |-> n, den |-> 100, exp |-> e] : n \in 0..99, e \in 1..3}

\* generation < 1000
below_1000(g) == g.exp = 0 /\ g.num < 1000 * g.den

\* generation /= 1000
divided(g) ==
    IF g.exp > 0 THEN [g EXCEPT !.exp = @ - 1] ELSE [g EXCEPT !.den = @ * 1000]

\* "{:,.1f}".format(generation): the number of tenths shown
Pow1000(e) == IF e = 0 THEN 1 ELSE IF e = 1 THEN 1000 ELSE 1000000
tenths(g) == (20 * g.num * Pow1000(g.exp) + g.den) \div (2 * g.den)

\* for units in ('kWh', 'MWh', 'GWh'): if generation < 1000: break;
\* generation /= 1000 -- after the last turn units is still 'GWh'
RECURSIVE units_loop(_, _)
units_loop(g, i) ==
    IF below_1000(g) THEN [tenths |-> tenths(g), unit |-> i]
    ELSE IF i = Len(UnitNames) THEN [tenths |-> tenths(divided(g)), unit |-> i]
    ELSE units_loop(divided(g), i + 1)
show_with_units(g) == units_loop(g, 1)

InitUnits ==
    /\ script = "solarcity"
    /\ DEBUG_MODE = FALSE
    /\ file = None
    /\ tmp = None
    /\ data \in Generations
    /\ data_changed = FALSE
    /\ args = {}
    /\ pc = "call"
    /\ retry = 0
    /\ today = 1
    /\ car = 990
    /\ last_poke = None
    /\ poked_car = FALSE
    /\ runs = 0
    /\ out = Idle
    /\ hist = None
    /\ lock = NoLock

ShowWithUnits ==
    /\ pc = "call"
    /\ out' = [op |-> "show_with_units", m |-> show_with_units(data)]
    /\ pc' = "shown"
    /\ UNCHANGED <<script, DEBUG_MODE, file, tmp, data, data_changed, args, retry, today,
                   car, last_poke, poked_car, runs, hist, lock>>

NextUnits == ShowWithUnits

SpecUnits == InitUnits /\ [][NextUnits]_vars

\* the shown magnitude times the scale of the shown unit is the generation,
\* within half a tenth of that unit (compared in hundredths of the unit, or
\* of the generation's own thousands when that is the smaller one)
ShownExactly(g, m) ==
    LET e == g.exp - (m.unit - 1)
    IN  IF e >= 0
          THEN LET d == m.tenths * 10 - g.num * Pow1000(e)
               IN  d <= 5 /\ -d <= 5
          ELSE LET d == m.tenths * 10 * Pow1000(-e) - g.num
               IN  d <= 5 * Pow1000(-e) /\ -d <= 5 * Pow1000(-e)

\* C27 (as stated): the magnitude shown by show_with_units times the scale of
\* its unit equals the generation up to the rounding to one decimal, and a
\* magnitude shown in kWh or MWh is below 1000.
C27_ShowWithUnitsScales ==
    out.op = "show_with_units" =>
        /\ ShownExactly(data, out.m)
        /\ out.m.unit < Len(UnitNames) => out.m.tenths < 10000

(***************************************************************************)
(* solarcity.py: main() over the days of a model calendar (SpecSolar)      *)
(***************************************************************************)
MaxSolarDay == 3
MaxInvocations == 3
SolarDays == 0..MaxSolarDay

\* The calendar main reads: months of two days and years of two months, so
\* that day 1 ends a month that is not December and day 3 ends December.
\* calendar.monthrange(now.year, now.month)[1] == now.day
last_day_of_month(d) == d % 2 = 1
\* time.strftime("%Y%m")
current_month(d) == d \div 2
\* now.month == 12
december(d) == current_month(d) % 2 = 1

\* config.lastdailytweet of a fresh store ('20010101', before every day)
NeverTweeted == 0 - 1
SolarDefault ==
    [config |-> [lastdailytweet |-> NeverTweeted, lastmonthlytweet |-> None,
                 lastyearlytweet |-> None],
     data |-> {}]
\* load_data: the document of the file, or the defaults without a file; the
\* days with an entry are kept as a set
solar_load(f) == IF Has(f) THEN Val(f) ELSE SolarDefault

SolarOrder == <<"missing", "monthly", "yearly", "daily", "blog">>
SolarNext(a, i) ==
    LET later == {j \in (i + 1)..Len(SolarOrder) : SolarOrder[j] \in a}
    IN  IF later = {} THEN "end"
        ELSE SolarOrder[CHOOSE j \in later : \A k \in later : j <= k]
SolarAfter(a, op) == SolarNext(a, CHOOSE i \in 1..Len(SolarOrder) : SolarOrder[i] = op)
\* command lines: --pvoutput and --details modify --daily and --blog
SolarSchedules ==
    {{"daily"}, {"monthly"}, {"yearly"}, {"monthly", "yearly"}, {"missing"}, {"blog"},
     {"blog", "details"}, {"daily", "pvoutput"}, {"monthly", "yearly", "daily"}}

\* what has happened so far: load_data and save_data calls of the running
\* invocation, whether one of its writes was made without the lock, and the
\* days (months) whose daily (monthly, yearly) message has been posted
SolarHistory ==
    [reads |-> 0, writes |-> 0, bare |-> FALSE, daily |-> {}, monthly |-> {},
     yearly |-> {}, again |-> FALSE, offday |-> FALSE]

holds_lock == lock.holder[1] = 1

InitSolar ==
    /\ script = "solarcity"
    /\ DEBUG_MODE \in BOOLEAN
    /\ file \in {None, Some([SolarDefault EXCEPT !.data = {0}])}
    /\ tmp = None
    /\ data = SolarDefault
    /\ data_changed = FALSE
    /\ args = {}
    /\ pc = "idle"
    /\ retry = 0
    /\ today \in {0, 1}
    /\ car = 990
    /\ last_poke = None
    /\ poked_car = FALSE
    /\ runs = 0
    /\ out = Idle
    /\ hist = SolarHistory
    /\ lock = NoLock

\* variables main() of solarcity.py never touches
SolarFrame == UNCHANGED <<script, DEBUG_MODE, tmp, car, last_poke, poked_car, runs>>

\* save_data(data): the file is replaced unless DEBUG_MODE
solar_saved(d) == IF DEBUG_MODE THEN file ELSE Some(d)
solar_written(h) ==
    IF DEBUG_MODE THEN h
    ELSE [h EXCEPT !.writes = @ + 1, !.bare = @ \/ ~holds_lock]

\* a message of the given kind goes out for the given period
solar_posted(h, kind, period, due) ==
    [h EXCEPT ![kind] = @ \cup {period},
              !.again = @ \/ period \in h[kind],
              !.offday = @ \/ ~due]

SolarNewDay ==
    /\ pc = "idle"
    /\ today < MaxSolarDay
    /\ today' = today + 1
    /\ out' = Idle
    /\ SolarFrame
    /\ UNCHANGED <<file, data, data_changed, args, pc, retry, hist, lock>>

SolarInvoke ==
    /\ pc = "idle"
    /\ runs < MaxInvocations
    /\ runs' = runs + 1
    /\ \E a \in SolarSchedules : args' = a
    /\ pc' = "lock"
    /\ data' = SolarDefault
    /\ data_changed' = FALSE
    /\ retry' = 0
    /\ out' = Idle
    /\ hist' = [hist EXCEPT !.reads = 0, !.writes = 0, !.bare = FALSE]
    /\ UNCHANGED <<script, DEBUG_MODE, tmp, car, last_poke, poked_car, file, today, lock>>

\* main: flock(LOCK_EX | LOCK_NB) on /tmp/solarcity.lock unless --blog; the
\* run returns -1 when another instance holds it; then data = load_data()
SolarEnterMain ==
    /\ pc = "lock"
    /\ \E granted \in BOOLEAN :
         IF "blog" \in args
           THEN /\ lock' = lock
                /\ data' = solar_load(file)
                /\ hist' = [hist EXCEPT !.reads = @ + 1]
                /\ pc' = SolarNext(args, 0)
                /\ out' = [op |-> "load", locked |-> FALSE]
           ELSE IF granted
             THEN /\ lock' = [lock EXCEPT !.path = 1, !.holder[1] = 1]
                  /\ data' = solar_load(file)
                  /\ hist' = [hist EXCEPT !.reads = @ + 1]
                  /\ pc' = SolarNext(args, 0)
                  /\ out' = [op |-> "load", locked |-> TRUE]
             ELSE /\ lock' = [lock EXCEPT !.path = 1]
                  /\ pc' = "idle"
                  /\ out' = [op |-> "busy"]
                  /\ UNCHANGED <<data, hist>>
    /\ SolarFrame
    /\ UNCHANGED <<file, data_changed, args, retry, today>>

\* populate_missing_data, up to its loop: last is the latest day with an
\* entry; with no entry at all `last < today - 1` compares None and raises
SolarMissing ==
    /\ pc = "missing"
    /\ IF data.data = {}
         THEN /\ pc' = "except"
              /\ retry' = retry
              /\ out' = [op |-> "missing", exc |-> "TypeError"]
         ELSE /\ pc' = "missing_day"
              /\ retry' = CHOOSE d \in data.data : \A e \in data.data : e <= d
              /\ out' = [op |-> "missing", exc |-> "none"]
    /\ SolarFrame
    /\ UNCHANGED <<file, data, data_changed, args, today, hist, lock>>

\* one turn of the loop of populate_missing_data: the next day is fetched,
\* entered, saved at once and uploaded; a failed fetch skips the day and a
\* failed upload leaves the function
SolarMissingDay ==
    /\ pc = "missing_day"
    /\ IF retry < today - 1
         THEN /\ retry' = retry + 1
              /\ \E fetched \in BOOLEAN, uploaded \in BOOLEAN :
                   IF retry + 1 \in data.data \/ ~fetched
                     THEN /\ pc' = pc
                          /\ out' = [op |-> "missing_day", filled |-> FALSE]
                          /\ UNCHANGED <<file, data, data_changed, hist>>
                     ELSE /\ data' = [data EXCEPT !.data = @ \cup {retry + 1}]
                          /\ data_changed' = TRUE
                          /\ file' = solar_saved(data')
                          /\ hist' = solar_written(hist)
                          /\ pc' = IF uploaded THEN pc ELSE "except"
                          /\ out' = [op |-> "missing_day", filled |-> TRUE]
         ELSE /\ pc' = SolarAfter(args, "missing")
              /\ out' = [op |-> "missing_done"]
              /\ UNCHANGED <<file, data, data_changed, retry, hist>>
    /\ SolarFrame
    /\ UNCHANGED <<args, today, lock>>

\* --monthly: on the last day of the month, unless lastmonthlytweet is the
\* current month, tweet_month (which only prints under DEBUG_MODE)
SolarMonthly ==
    /\ pc = "monthly"
    /\ \E t \in TweetOutcomes :
         IF last_day_of_month(today)
              /\ data.config.lastmonthlytweet # Some(current_month(today))
           THEN IF ~DEBUG_MODE /\ t = "raise"
                  THEN /\ pc' = "except"
                       /\ out' = [op |-> "monthly", posted |-> FALSE]
                       /\ UNCHANGED <<data, data_changed, hist>>
                  ELSE /\ data' = [data EXCEPT !.config.lastmonthlytweet =
                                                  Some(current_month(today))]
                       /\ data_changed' = TRUE
                       /\ pc' = SolarAfter(args, "monthly")
                       /\ out' = [op |-> "monthly", posted |-> ~DEBUG_MODE /\ t = "sent"]
                       /\ hist' = IF ~DEBUG_MODE /\ t = "sent"
                                    THEN solar_posted(hist, "monthly", current_month(today),
                                                      last_day_of_month(today))
                                    ELSE hist
           ELSE /\ pc' = SolarAfter(args, "monthly")
                /\ out' = [op |-> "monthly", posted |-> FALSE]
                /\ UNCHANGED <<data, data_changed, hist>>
    /\ SolarFrame
    /\ UNCHANGED <<file, args, retry, today, lock>>

\* --yearly: the same on the last day of December, under lastyearlytweet
SolarYearly ==
    /\ pc = "yearly"
    /\ \E t \in TweetOutcomes :
         IF december(today) /\ last_day_of_month(today)
              /\ data.config.lastyearlytweet # Some(current_month(today))
           THEN IF ~DEBUG_MODE /\ t = "raise"
                  THEN /\ pc' = "except"
                       /\ out' = [op |-> "yearly", posted |-> FALSE]
                       /\ UNCHANGED <<data, data_changed, hist>>
                  ELSE /\ data' = [data EXCEPT !.config.lastyearlytweet =
                                                  Some(current_month(today))]
                       /\ data_changed' = TRUE
                       /\ pc' = SolarAfter(args, "yearly")
                       /\ out' = [op |-> "yearly", posted |-> ~DEBUG_MODE /\ t = "sent"]
                       /\ hist' = IF ~DEBUG_MODE /\ t = "sent"
                                    THEN solar_posted(hist, "yearly", current_month(today),
                                                      december(today)
                                                          /\ last_day_of_month(today))
                                    ELSE hist
           ELSE /\ pc' = SolarAfter(args, "yearly")
                /\ out' = [op |-> "yearly", posted |-> FALSE]
                /\ UNCHANGED <<data, data_changed, hist>>
    /\ SolarFrame
    /\ UNCHANGED <<file, args, retry, today, lock>>

\* --daily (without --force and --no_tweet): unless lastdailytweet is today
\* and DEBUG_MODE is off, today's production is fetched, entered and
\* tweeted, then uploaded under --pvoutput
SolarDaily ==
    /\ pc = "daily"
    /\ \E fetched \in BOOLEAN, t \in TweetOutcomes, uploaded \in BOOLEAN :
         IF data.config.lastdailytweet # today \/ DEBUG_MODE
           THEN IF ~fetched
                  THEN /\ pc' = "except"
                       /\ out' = [op |-> "daily", posted |-> FALSE]
                       /\ UNCHANGED <<data, data_changed, hist>>
                ELSE IF ~DEBUG_MODE /\ t = "raise"
                  THEN /\ data' = [data EXCEPT !.data = @ \cup {today}]
                       /\ pc' = "except"
                       /\ out' = [op |-> "daily", posted |-> FALSE]
                       /\ UNCHANGED <<data_changed, hist>>
                  ELSE /\ data' = [data EXCEPT !.data = @ \cup {today},
                                               !.config.lastdailytweet = today]
                       /\ data_changed' = TRUE
                       /\ pc' = IF "pvoutput" \in args /\ ~uploaded
                                  THEN "except" ELSE SolarAfter(args, "daily")
                       /\ out' = [op |-> "daily", posted |-> ~DEBUG_MODE /\ t = "sent"]
                       /\ hist' = IF ~DEBUG_MODE /\ t = "sent"
                                    THEN solar_posted(hist, "daily", today, TRUE)
                                    ELSE hist
           ELSE /\ pc' = SolarAfter(args, "daily")
                /\ out' = [op |-> "daily", posted |-> FALSE]
                /\ UNCHANGED <<data, data_changed, hist>>
    /\ SolarFrame
    /\ UNCHANGED <<file, args, retry, today, lock>>

\* --blog: the report indexes the day of highest production (None without
\* an entry: KeyError); --details fills the entries that have no positive
\* daylight value from the weather service and marks the store changed
SolarBlog ==
    /\ pc = "blog"
    /\ \E undated \in BOOLEAN :
         IF data.data = {}
           THEN /\ pc' = "except"
                /\ out' = [op |-> "blog", filled |-> FALSE]
                /\ UNCHANGED data_changed
           ELSE /\ pc' = "end"
                /\ out' = [op |-> "blog", filled |-> "details" \in args /\ undated]
                /\ data_changed' = (data_changed \/ ("details" \in args /\ undated))
    /\ SolarFrame
    /\ UNCHANGED <<file, data, args, retry, today, hist, lock>>

\* the end of main: `if data_changed: save_data(data)`; the lock goes with
\* the file object when main returns
SolarEnd ==
    /\ pc = "end"
    /\ file' = IF data_changed THEN solar_saved(data) ELSE file
    /\ hist' = IF data_changed THEN solar_written(hist) ELSE hist
    /\ lock' = [lock EXCEPT !.holder[1] = 0]
    /\ pc' = "idle"
    /\ out' = [op |-> "end", changed |-> data_changed]
    /\ data' = SolarDefault
    /\ data_changed' = FALSE
    /\ args' = {}
    /\ retry' = 0
    /\ SolarFrame
    /\ UNCHANGED today

\* __main__: an exception out of main is logged, and raised again under
\* DEBUG_MODE; nothing is saved
SolarHandler ==
    /\ pc = "except"
    /\ lock' = [lock EXCEPT !.holder[1] = 0]
    /\ pc' = "idle"
    /\ out' = [op |-> "abort", lost |-> data_changed, reraised |-> DEBUG_MODE]
    /\ data' = SolarDefault
    /\ data_changed' = FALSE
    /\ args' = {}
    /\ retry' = 0
    /\ SolarFrame
    /\ UNCHANGED <<file, today, hist>>

NextSolar ==
    \/ SolarNewDay
    \/ SolarInvoke
    \/ SolarEnterMain
    \/ SolarMissing
    \/ SolarMissingDay
    \/ SolarMonthly
    \/ SolarYearly
    \/ SolarDaily
    \/ SolarBlog
    \/ SolarEnd
    \/ SolarHandler

SpecSolar == InitSolar /\ [][NextSolar]_vars

\* C25 (as stated): an invocation reads the state file once, writes it at
\* most once, and writes it only while it holds the single-instance lock.
C25_OneReadOneLockedWrite ==
    /\ hist.reads <= 1
    /\ hist.writes <= 1
    /\ ~hist.bare

\* C29 (as stated): with DEBUG_MODE off, the daily message is posted at most
\* once a day, the monthly (yearly) message only on the last day of the
\* month (of December) and at most once a month (a year).
C29_PostedOncePerPeriod ==
    ~DEBUG_MODE => ~hist.again /\ ~hist.offday

====
